---- MODULE Spec2Model ----
(***************************************************************************)
(* FTQ (Fixed Time Quantum microbenchmark): the coordinator in main()      *)
(* (src/ftq.c), the measurement instances ftq_core() it launches, and the  *)
(* reporter at the end of main().                                          *)
(*                                                                         *)
(* ftq_core() and the OS layer (nsec, getticks, threadinit, wireme,        *)
(* compute_ticksperns) are declared in ftq.h but defined in files that are *)
(* not part of src/; they are modelled from the specification.             *)
(***************************************************************************)
EXTENDS Integers, Sequences, FiniteSets, TLC

(* ------------------------------ bounds -------------------------------- *)
\* largest value given to -t
MaxThreads == 2
\* largest value given to -n together with -t
MaxThreadedSamples == 1
\* largest value given to -n when at most one thread is asked for
MaxNumSamples == 2
\* ticks of the cycle counter per nanosecond of the nsec() clock
TickRate == 2
\* ticks the cycle counter advances while one quantum of work is done
QuantumTicks == 4

(* ------------------------- program constants -------------------------- *)
MAX_SAMPLES == 2000000
DEFAULT_COUNT == 524288
DEFAULT_INTERVAL == 100000
ITERCOUNT == 32

(* ------------------------------ inputs -------------------------------- *)
\* values of atoi(optarg) for -f
FreqIn == {-2000000000, 0, 1000, 2000000000}
\* values of -T
TicksPerNsIn == {1, 2, 3}
\* what the out-of-range conversion double -> unsigned long long may yield
\* (undefined behaviour: representatives of "zero" and "some huge value")
UBOutcomes == {0, 2147483647}

Threads == 0 .. (MaxThreads - 1)

VARIABLES
    mpc,          \* position of main()
    numthreads,   \* int numthreads
    use_threads,  \* int use_threads
    use_stdout,   \* int use_stdout
    numsamples,   \* unsigned long numsamples
    interval,     \* unsigned long long interval
    ticksperns,   \* double ticksperns (0 = not set)
    allocated,    \* samples points to storage
    samples,      \* the buffer: word index -> value
    hounds,       \* volatile int hounds
    i,            \* loop index of the create / join loops
    j,            \* loop index of the report loop
    start, end_,  \* nsec() at start / end (-1 = not read)
    cyclestart, cycleend, \* getticks() at start / end (-1 = not read)
    now,          \* the free-running cycle counter
    tpc,          \* position of each measurement instance
    tk,           \* samples recorded so far by each instance
    created,      \* threads created by pthread_create
    joined,       \* threads for which pthread_join returned 0
    prims,        \* thread primitives invoked so far
    rd,           \* buffer word indexes read by the reporter, per thread
    out,          \* report lines emitted, per thread
    files,        \* .dat files opened, by thread index
    stdout_used,  \* something was written to stdout
    rc            \* int rc: what the last pthread call returned

vars == << mpc, numthreads, use_threads, use_stdout, numsamples, interval,
           ticksperns, allocated, samples, hounds, i, j, start, end_,
           cyclestart, cycleend, now, tpc, tk, created, joined, prims,
           rd, out, files, stdout_used, rc >>

(* ------------------------- clocks (OS layer) -------------------------- *)
\* ticks getticks(): the current value of the cycle counter
Getticks == now
\* ticks nsec(): the nanosecond clock, driven by the same time base
Nsec == now \div TickRate

(* --------------------------- option parsing --------------------------- *)
\* case 'f': interval = (unsigned long long)(1e9 / atoi(optarg))
\* the set of values the conversion can produce for frequency f
IntervalOf(f) ==
    IF f > 0 THEN {1000000000 \div f}
    ELSE IF f = 0 THEN UBOutcomes                 \* 1e9/0 = +inf
    ELSE IF 1000000000 < -f THEN {0}              \* -1 < quotient < 0
    ELSE UBOutcomes                               \* quotient <= -1

\* if (numsamples > MAX_SAMPLES) numsamples = MAX_SAMPLES
Cap(n) == IF n > MAX_SAMPLES THEN MAX_SAMPLES ELSE n

\* samples_size / sizeof(unsigned long long), for n samples per thread
SamplesWords(n) == n * 2 * numthreads

Running == mpc \notin {"exit_usage", "exit_stdout", "exit_create", "exit_join",
                       "exit_fopen", "abort_alloc", "abort_threadinit",
                       "crash", "exit_ok"}

Init ==
    /\ mpc = "parse"
    /\ numthreads = 1
    /\ use_threads = 0
    /\ use_stdout = 0
    /\ numsamples = DEFAULT_COUNT
    /\ interval = DEFAULT_INTERVAL
    /\ ticksperns = 0
    /\ allocated = FALSE
    /\ samples = << >>
    /\ hounds = 0
    /\ i = 0
    /\ j = 0
    /\ start = -1
    /\ end_ = -1
    /\ cyclestart = -1
    /\ cycleend = -1
    /\ now = 0
    /\ tpc = [t \in Threads |-> "none"]
    /\ tk = [t \in Threads |-> 0]
    /\ created = {}
    /\ joined = {}
    /\ prims = {}
    /\ rd = [t \in Threads |-> {}]
    /\ out = [t \in Threads |-> << >>]
    /\ files = {}
    /\ stdout_used = FALSE
    /\ rc = 0

\* the getopt_long loop, lines 76-134: -t, -f and -T absent or present with
\* a value, -s absent or present, -n present with a value
ParseArgsOver(TIn, NIn, FIn, TpnIn) ==
    /\ mpc = "parse"
    /\ \E hasT \in BOOLEAN, t \in TIn, s \in {0, 1}, n \in NIn,
          hasF \in {g \in BOOLEAN : g => FIn # {}}, T \in TpnIn \cup {0} :
          /\ numthreads' = IF hasT THEN t ELSE numthreads
          /\ use_threads' = IF hasT THEN 1 ELSE use_threads
          /\ use_stdout' = s
          /\ numsamples' = n
          /\ interval' \in (IF hasF THEN UNION {IntervalOf(f) : f \in FIn}
                            ELSE {interval})
          /\ ticksperns' = T
    /\ mpc' = "alloc"
    /\ UNCHANGED << allocated, samples, hounds, i, j, start, end_, cyclestart,
                    cycleend, now, tpc, tk, created, joined, prims, rd, out,
                    files, stdout_used, rc >>

\* command lines that vary the thread count and leave -f and -T out
ParseArgs == ParseArgsOver(1 .. MaxThreads, 0 .. MaxThreadedSamples, {}, {})

\* command lines that vary -f and -T and ask for at most one thread
ParseArgsNumeric == ParseArgsOver({1}, 0 .. MaxNumSamples, FreqIn, TicksPerNsIn)

\* case 'h' / default: usage(argv[0]) exits with EXIT_FAILURE
Usage ==
    /\ mpc = "parse"
    /\ mpc' = "exit_usage"
    /\ UNCHANGED << numthreads, use_threads, use_stdout, numsamples, interval,
                    ticksperns, allocated, samples, hounds, i, j, start, end_,
                    cyclestart, cycleend, now, tpc, tk, created, joined, prims,
                    rd, out, files, stdout_used, rc >>

(* --------------------------- allocation ------------------------------- *)
\* lines 136-153: sanity check, mmap (or malloc), memset to zero
Alloc ==
    /\ mpc = "alloc"
    /\ numsamples' = Cap(numsamples)
    /\ allocated' = TRUE
    /\ samples' = [x \in 0 .. (SamplesWords(Cap(numsamples)) - 1) |-> 0]
    /\ mpc' = "check"
    /\ UNCHANGED << numthreads, use_threads, use_stdout, interval, ticksperns,
                    hounds, i, j, start, end_, cyclestart, cycleend, now, tpc,
                    tk, created, joined, prims, rd, out, files, stdout_used, rc >>

\* mmap failed and malloc returned NULL: assert(samples) aborts
AllocFail ==
    /\ mpc = "alloc"
    /\ numsamples' = Cap(numsamples)
    /\ mpc' = "abort_alloc"
    /\ UNCHANGED << numthreads, use_threads, use_stdout, interval, ticksperns,
                    allocated, samples, hounds, i, j, start, end_, cyclestart,
                    cycleend, now, tpc, tk, created, joined, prims, rd, out,
                    files, stdout_used, rc >>

\* variant of StdoutConflict: the comparison is off by one
StdoutConflict_mut == use_stdout = 1 /\ numthreads > 2

\* line 155: use_stdout == 1 && numthreads > 1
StdoutConflict == use_stdout = 1 /\ numthreads > 1

\* lines 155-159: single-stream output with several threads is rejected
CheckStdout ==
    /\ mpc = "check"
    /\ mpc' = IF StdoutConflict THEN "exit_stdout" ELSE "calibrate"
    /\ UNCHANGED << numthreads, use_threads, use_stdout, numsamples, interval,
                    ticksperns, allocated, samples, hounds, i, j, start, end_,
                    cyclestart, cycleend, now, tpc, tk, created, joined, prims,
                    rd, out, files, stdout_used, rc >>

\* variant of ThreadedPath: the branch is taken on the thread count
ThreadedPath_mut == numthreads >= 1

\* line 168: if (use_threads == 1)
ThreadedPath == use_threads = 1

\* double compute_ticksperns(): the measured ratio of the two clocks
ComputeTicksperns == TickRate

\* lines 161-162: ticksperns is computed unless -T supplied it
Calibrate ==
    /\ mpc = "calibrate"
    /\ ticksperns' = IF ticksperns = 0 THEN ComputeTicksperns ELSE ticksperns
    /\ mpc' = IF ThreadedPath THEN "t_init" ELSE "i_release"
    /\ UNCHANGED << numthreads, use_threads, use_stdout, numsamples, interval,
                    allocated, samples, hounds, i, j, start, end_, cyclestart,
                    cycleend, now, tpc, tk, created, joined, prims, rd, out,
                    files, stdout_used, rc >>

(* ------------------------- threaded launch ---------------------------- *)
\* lines 169-176: threadinit succeeded, the pthread_t array is allocated
ThreadInit ==
    /\ mpc = "t_init"
    /\ prims' = prims \cup {"threadinit"}
    /\ mpc' = "t_start"
    /\ UNCHANGED << numthreads, use_threads, use_stdout, numsamples, interval,
                    ticksperns, allocated, samples, hounds, i, j, start, end_,
                    cyclestart, cycleend, now, tpc, tk, created, joined, rd,
                    out, files, stdout_used, rc >>

\* lines 169-172: threadinit(numthreads) < 0, assert(0) aborts
ThreadInitFail ==
    /\ mpc = "t_init"
    /\ prims' = prims \cup {"threadinit"}
    /\ mpc' = "abort_threadinit"
    /\ UNCHANGED << numthreads, use_threads, use_stdout, numsamples, interval,
                    ticksperns, allocated, samples, hounds, i, j, start, end_,
                    cyclestart, cycleend, now, tpc, tk, created, joined, rd,
                    out, files, stdout_used, rc >>

\* line 177: start = nsec()
ThreadedStart ==
    /\ mpc = "t_start"
    /\ start' = Nsec
    /\ now' = now + 1
    /\ mpc' = "t_cyclestart"
    /\ UNCHANGED << numthreads, use_threads, use_stdout, numsamples, interval,
                    ticksperns, allocated, samples, hounds, i, j, end_,
                    cyclestart, cycleend, tpc, tk, created, joined, prims, rd,
                    out, files, stdout_used, rc >>

\* the for loops over the threads: for (i = ..; i < numthreads; i++)
LoopNext(k, body, exit) == IF k < numthreads THEN body ELSE exit

\* variant of CreateLoopNext: the loop stops one thread short
CreateLoopNext_mut(k) == LoopNext(k + 1, "t_create", "t_release")

\* variant of JoinLoopNext: the loop stops one thread short
JoinLoopNext_mut(k) == LoopNext(k + 1, "t_join", "t_cycleend")

\* line 180: the create loop goes on, or falls through to line 189
CreateLoopNext(k) == LoopNext(k, "t_create", "t_release")

\* line 191: the join loop goes on, or falls through to line 198
JoinLoopNext(k) == LoopNext(k, "t_join", "t_cycleend")

\* line 178: cyclestart = getticks(), then i = 0 of the create loop
ThreadedCycleStart ==
    /\ mpc = "t_cyclestart"
    /\ cyclestart' = Getticks
    /\ now' = now + 1
    /\ i' = 0
    /\ mpc' = CreateLoopNext(0)
    /\ UNCHANGED << numthreads, use_threads, use_stdout, numsamples, interval,
                    ticksperns, allocated, samples, hounds, j, start, end_,
                    cycleend, tpc, tk, created, joined, prims, rd, out, files,
                    stdout_used, rc >>

\* lines 181-182: pthread_create returned 0; thread i starts in ftq_core
Create ==
    /\ mpc = "t_create"
    /\ rc' = 0
    /\ prims' = prims \cup {"pthread_create"}
    /\ created' = created \cup {i}
    /\ tpc' = [tpc EXCEPT ![i] = "spin"]
    /\ i' = i + 1
    /\ mpc' = CreateLoopNext(i + 1)
    /\ UNCHANGED << numthreads, use_threads, use_stdout, numsamples, interval,
                    ticksperns, allocated, samples, hounds, j, start, end_,
                    cyclestart, cycleend, now, tk, joined, rd, out, files,
                    stdout_used >>

\* variant of CreateFail: the return code is not acted upon
CreateFail_mut ==
    /\ mpc = "t_create"
    /\ rc' = 1
    /\ prims' = prims \cup {"pthread_create"}
    /\ i' = i + 1
    /\ mpc' = CreateLoopNext(i + 1)
    /\ UNCHANGED << numthreads, use_threads, use_stdout, numsamples, interval,
                    ticksperns, allocated, samples, hounds, j, start, end_,
                    cyclestart, cycleend, now, tpc, tk, created, joined, rd,
                    out, files, stdout_used >>

\* lines 183-186: pthread_create failed, exit(EXIT_FAILURE)
CreateFail ==
    /\ mpc = "t_create"
    /\ rc' = 1
    /\ prims' = prims \cup {"pthread_create"}
    /\ mpc' = "exit_create"
    /\ UNCHANGED << numthreads, use_threads, use_stdout, numsamples, interval,
                    ticksperns, allocated, samples, hounds, i, j, start, end_,
                    cyclestart, cycleend, now, tpc, tk, created, joined, rd,
                    out, files, stdout_used >>

\* variant of ThreadedRelease: the signal is not set
ThreadedRelease_mut ==
    /\ mpc = "t_release"
    /\ i' = 0
    /\ mpc' = JoinLoopNext(0)
    /\ UNCHANGED << numthreads, use_threads, use_stdout, numsamples, interval,
                    ticksperns, allocated, samples, hounds, j, start, end_,
                    cyclestart, cycleend, now, tpc, tk, created, joined, prims,
                    rd, out, files, stdout_used, rc >>

\* line 189: hounds = 1, then i = 0 of the join loop
ThreadedRelease ==
    /\ mpc = "t_release"
    /\ hounds' = 1
    /\ i' = 0
    /\ mpc' = JoinLoopNext(0)
    /\ UNCHANGED << numthreads, use_threads, use_stdout, numsamples, interval,
                    ticksperns, allocated, samples, j, start, end_, cyclestart,
                    cycleend, now, tpc, tk, created, joined, prims, rd, out,
                    files, stdout_used, rc >>

\* line 192: pthread_join returns 0 once thread i has terminated
Join ==
    /\ mpc = "t_join"
    /\ tpc[i] = "done"
    /\ rc' = 0
    /\ prims' = prims \cup {"pthread_join"}
    /\ joined' = joined \cup {i}
    /\ i' = i + 1
    /\ mpc' = JoinLoopNext(i + 1)
    /\ UNCHANGED << numthreads, use_threads, use_stdout, numsamples, interval,
                    ticksperns, allocated, samples, hounds, j, start, end_,
                    cyclestart, cycleend, now, tpc, tk, created, rd, out,
                    files, stdout_used >>

\* lines 193-196: pthread_join failed, exit(EXIT_FAILURE)
JoinFail ==
    /\ mpc = "t_join"
    /\ rc' = 1
    /\ prims' = prims \cup {"pthread_join"}
    /\ mpc' = "exit_join"
    /\ UNCHANGED << numthreads, use_threads, use_stdout, numsamples, interval,
                    ticksperns, allocated, samples, hounds, i, j, start, end_,
                    cyclestart, cycleend, now, tpc, tk, created, joined, rd,
                    out, files, stdout_used >>

\* line 198: cycleend = getticks()
ThreadedCycleEnd ==
    /\ mpc = "t_cycleend"
    /\ cycleend' = Getticks
    /\ now' = now + 1
    /\ mpc' = "t_end"
    /\ UNCHANGED << numthreads, use_threads, use_stdout, numsamples, interval,
                    ticksperns, allocated, samples, hounds, i, j, start, end_,
                    cyclestart, tpc, tk, created, joined, prims, rd, out,
                    files, stdout_used, rc >>

\* line 199: end = nsec()
ThreadedEnd ==
    /\ mpc = "t_end"
    /\ end_' = Nsec
    /\ now' = now + 1
    /\ mpc' = "report"
    /\ UNCHANGED << numthreads, use_threads, use_stdout, numsamples, interval,
                    ticksperns, allocated, samples, hounds, i, j, start,
                    cyclestart, cycleend, tpc, tk, created, joined, prims, rd,
                    out, files, stdout_used, rc >>

(* --------------------------- inline launch ---------------------------- *)
\* variant of InlineRelease: the signal is not set
InlineRelease_mut ==
    /\ mpc = "i_release"
    /\ mpc' = "i_start"
    /\ UNCHANGED << numthreads, use_threads, use_stdout, numsamples, interval,
                    ticksperns, allocated, samples, hounds, i, j, start, end_,
                    cyclestart, cycleend, now, tpc, tk, created, joined, prims,
                    rd, out, files, stdout_used, rc >>

\* line 201: hounds = 1
InlineRelease ==
    /\ mpc = "i_release"
    /\ hounds' = 1
    /\ mpc' = "i_start"
    /\ UNCHANGED << numthreads, use_threads, use_stdout, numsamples, interval,
                    ticksperns, allocated, samples, i, j, start, end_,
                    cyclestart, cycleend, now, tpc, tk, created, joined, prims,
                    rd, out, files, stdout_used, rc >>

\* line 202: start = nsec()
InlineStart ==
    /\ mpc = "i_start"
    /\ start' = Nsec
    /\ now' = now + 1
    /\ mpc' = "i_cyclestart"
    /\ UNCHANGED << numthreads, use_threads, use_stdout, numsamples, interval,
                    ticksperns, allocated, samples, hounds, i, j, end_,
                    cyclestart, cycleend, tpc, tk, created, joined, prims, rd,
                    out, files, stdout_used, rc >>

\* line 203: cyclestart = getticks()
InlineCycleStart ==
    /\ mpc = "i_cyclestart"
    /\ cyclestart' = Getticks
    /\ now' = now + 1
    /\ mpc' = "i_call"
    /\ UNCHANGED << numthreads, use_threads, use_stdout, numsamples, interval,
                    ticksperns, allocated, samples, hounds, i, j, start, end_,
                    cycleend, tpc, tk, created, joined, prims, rd, out, files,
                    stdout_used, rc >>

\* line 204: ftq_core(0) is entered on the main sequence of execution
InlineCall ==
    /\ mpc = "i_call"
    /\ tpc' = [tpc EXCEPT ![0] = "spin"]
    /\ mpc' = "i_core"
    /\ UNCHANGED << numthreads, use_threads, use_stdout, numsamples, interval,
                    ticksperns, allocated, samples, hounds, i, j, start, end_,
                    cyclestart, cycleend, now, tk, created, joined, prims, rd,
                    out, files, stdout_used, rc >>

\* line 204: ftq_core(0) returns
InlineReturn ==
    /\ mpc = "i_core"
    /\ tpc[0] = "done"
    /\ mpc' = "i_cycleend"
    /\ UNCHANGED << numthreads, use_threads, use_stdout, numsamples, interval,
                    ticksperns, allocated, samples, hounds, i, j, start, end_,
                    cyclestart, cycleend, now, tpc, tk, created, joined, prims,
                    rd, out, files, stdout_used, rc >>

\* line 205: cycleend = getticks()
InlineCycleEnd ==
    /\ mpc = "i_cycleend"
    /\ cycleend' = Getticks
    /\ now' = now + 1
    /\ mpc' = "i_end"
    /\ UNCHANGED << numthreads, use_threads, use_stdout, numsamples, interval,
                    ticksperns, allocated, samples, hounds, i, j, start, end_,
                    cyclestart, tpc, tk, created, joined, prims, rd, out,
                    files, stdout_used, rc >>

\* line 206: end = nsec()
InlineEnd ==
    /\ mpc = "i_end"
    /\ end_' = Nsec
    /\ now' = now + 1
    /\ mpc' = "report"
    /\ UNCHANGED << numthreads, use_threads, use_stdout, numsamples, interval,
                    ticksperns, allocated, samples, hounds, i, j, start,
                    cyclestart, cycleend, tpc, tk, created, joined, prims, rd,
                    out, files, stdout_used, rc >>

(* ------------------- measurement instance: ftq_core ------------------- *)
\* the slot of sample k of thread t: samples[2 * (t * numsamples + k)]
SlotOf(t, k) == 2 * (t * numsamples + k)

\* the spin-wait ends once hounds is seen set; the quantum start is read
CoreStart(t) ==
    /\ Running
    /\ tpc[t] = "spin"
    /\ hounds = 1
    /\ tpc' = [tpc EXCEPT ![t] = "run"]
    /\ now' = now + 1
    /\ UNCHANGED << mpc, numthreads, use_threads, use_stdout, numsamples,
                    interval, ticksperns, allocated, samples, hounds, i, j,
                    start, end_, cyclestart, cycleend, tk, created, joined,
                    prims, rd, out, files, stdout_used, rc >>

\* work is done until the quantum has elapsed; then (timestamp, count) goes
\* to the next free slot of the thread's slice
CoreSample(t) ==
    /\ Running
    /\ tpc[t] = "run"
    /\ tk[t] < numsamples
    /\ samples' = [samples EXCEPT ![SlotOf(t, tk[t])] = Getticks + QuantumTicks,
                                  ![SlotOf(t, tk[t]) + 1] = ITERCOUNT]
    /\ tk' = [tk EXCEPT ![t] = tk[t] + 1]
    /\ now' = now + QuantumTicks + 1
    /\ UNCHANGED << mpc, numthreads, use_threads, use_stdout, numsamples,
                    interval, ticksperns, allocated, hounds, i, j, start, end_,
                    cyclestart, cycleend, tpc, created, joined, prims, rd, out,
                    files, stdout_used, rc >>

\* all numsamples samples are recorded: ftq_core returns
CoreReturn(t) ==
    /\ Running
    /\ tpc[t] = "run"
    /\ tk[t] >= numsamples
    /\ tpc' = [tpc EXCEPT ![t] = "done"]
    /\ UNCHANGED << mpc, numthreads, use_threads, use_stdout, numsamples,
                    interval, ticksperns, allocated, samples, hounds, i, j,
                    start, end_, cyclestart, cycleend, now, tk, created,
                    joined, prims, rd, out, files, stdout_used, rc >>

(* ------------------------------ reporter ------------------------------ *)
\* line 210: ns = end - start;  line 211: cycles = cycleend - cyclestart
ns == end_ - start
cycles == cycleend - cyclestart

\* 2^23 <= num / (den * 2^e) < 2^24, for 0 < den < 128, without leaving the
\* range of the integers at hand
InRange(num, den, e) ==
    IF e >= 0 THEN /\ 8388608 <= num \div (den * 2^e)
                   /\ num \div (den * 2^e) < 16777216
    ELSE IF -e <= 23 THEN /\ den * 2^(23 + e) <= num
                          /\ num < den * 2^(24 + e)
    ELSE /\ num < den
         /\ den <= num * 2^(-e - 23)
         /\ -e > 24 => num * 2^(-e - 24) < den

\* the exponent of the float nearest to num/den
ExpOf(num, den) == CHOOSE e \in (-30) .. 7 : InRange(num, den, e)

\* num / (den * 2^e) rounded to the nearest integer, ties to even: the
\* significand, with the exponent adjusted when it rounds up to 2^24
Rounded(num, den, e) ==
    LET n == IF e >= 0 THEN num ELSE num * 2^(-e)
        d == IF e >= 0 THEN den * 2^e ELSE den
        q == n \div d
        r == n % d
        m == IF 2 * r > d \/ (2 * r = d /\ q % 2 = 1) THEN q + 1 ELSE q
    IN  IF m = 16777216 THEN << 8388608, e + 1 >> ELSE << m, e >>

\* num/den rounded to a float (24-bit significand, round to nearest, ties to
\* even): << m, e >> stands for m * 2^e.  The clocks advance between reads, so
\* den > 0 and num >= 0 wherever the reporter converts; anything else is
\* given as 0 here
ToFloat(num, den) ==
    IF num <= 0 \/ den <= 0 THEN << 0, 0 >>
    ELSE CHOOSE f \in {Rounded(num, den, e) : e \in {ExpOf(num, den)}} : TRUE

\* an unsigned integer below 2^24 converts to float exactly (the
\* significand is left unnormalised)
IntToFloat(x) == << x, 0 >>

\* float * float, rounded to float (v: the two operands, evaluated once)
FloatMul(a, b) ==
    CHOOSE f \in {<< ToFloat(v[1][1] * v[2][1], 1)[1],
                     ToFloat(v[1][1] * v[2][1], 1)[2] + v[1][2] + v[2][2] >> :
                  v \in {<< a, b >>}} : TRUE

\* (ticks) f: conversion of a non-negative float to an integer truncates
FloatTrunc(a) ==
    IF a[2] >= 0 THEN a[1] * 2^(a[2])
    ELSE IF -a[2] > 30 THEN 0
    ELSE a[1] \div 2^(-a[2])

\* line 218: nspercycle = (1.0 * ns) / cycles, stored in a float
nspercycle == ToFloat(ns, cycles)

\* variant of TimeCol: the precomputed calibration factor is the divisor
TimeCol_mut(delta) == delta \div ticksperns

\* lines 227, 242-243: (ticks) (nspercycle * (samples[..] - base))
TimeCol(delta) == FloatTrunc(FloatMul(nspercycle, IntToFloat(delta)))

\* the word read at index x; outside the buffer the value is arbitrary
ReadWord(x) == IF x \in DOMAIN samples THEN samples[x] ELSE 0

\* lines 225, 240: base = samples[numsamples * j * 2] (stdout: samples[0])
BaseIdx(t) == numsamples * t * 2

\* lines 227-228, 243-244: the two words read for line k of thread t
TimeIdx(t, k) == t * numsamples * 2 + k * 2
CountIdx(t, k) == t * numsamples * 2 + k * 2 + 1

\* every index the reporter reads for thread t
ReadSet(t) ==
    {BaseIdx(t)} \cup {TimeIdx(t, k) : k \in 0 .. (numsamples - 1)}
                 \cup {CountIdx(t, k) : k \in 0 .. (numsamples - 1)}

\* the lines printed for thread t: one per i in 0 .. numsamples-1
Lines(t) ==
    [k \in 1 .. numsamples |->
        << TimeCol(ReadWord(TimeIdx(t, k - 1)) - ReadWord(BaseIdx(t))),
           ReadWord(CountIdx(t, k - 1)) >>]

\* lines 209-222: the totals are computed and printed to stderr
Report ==
    /\ mpc = "report"
    /\ j' = 0
    /\ mpc' = IF use_stdout = 1 THEN "emit_stdout"
               ELSE LoopNext(0, "emit", "finish")
    /\ UNCHANGED << numthreads, use_threads, use_stdout, numsamples, interval,
                    ticksperns, allocated, samples, hounds, i, start, end_,
                    cyclestart, cycleend, now, tpc, tk, created, joined, prims,
                    rd, out, files, stdout_used, rc >>

\* lines 223-229: header and the lines of thread 0 go to stdout
EmitStdout ==
    /\ mpc = "emit_stdout"
    /\ stdout_used' = TRUE
    /\ rd' = [rd EXCEPT ![0] = ReadSet(0)]
    /\ out' = [out EXCEPT ![0] = Lines(0)]
    /\ mpc' = "finish"
    /\ UNCHANGED << numthreads, use_threads, use_stdout, numsamples, interval,
                    ticksperns, allocated, samples, hounds, i, j, start, end_,
                    cyclestart, cycleend, now, tpc, tk, created, joined, prims,
                    files, rc >>

\* lines 232-247, one iteration: file j is opened, header and lines written
EmitFile ==
    /\ mpc = "emit"
    /\ files' = files \cup {j}
    /\ rd' = [rd EXCEPT ![j] = ReadSet(j)]
    /\ out' = [out EXCEPT ![j] = Lines(j)]
    /\ j' = j + 1
    /\ mpc' = LoopNext(j + 1, "emit", "finish")
    /\ UNCHANGED << numthreads, use_threads, use_stdout, numsamples, interval,
                    ticksperns, allocated, samples, hounds, i, start, end_,
                    cyclestart, cycleend, now, tpc, tk, created, joined, prims,
                    stdout_used, rc >>

\* a read outside the buffer may also fault: the process is killed after the
\* header is written and before any line is
EmitFault ==
    /\ mpc \in {"emit", "emit_stdout"}
    /\ LET t == IF mpc = "emit" THEN j ELSE 0 IN
        /\ ~(ReadSet(t) \subseteq DOMAIN samples)
        /\ rd' = [rd EXCEPT ![t] = {BaseIdx(t)}]
        /\ files' = IF mpc = "emit" THEN files \cup {t} ELSE files
        /\ stdout_used' = IF mpc = "emit" THEN stdout_used ELSE TRUE
    /\ mpc' = "crash"
    /\ UNCHANGED << numthreads, use_threads, use_stdout, numsamples, interval,
                    ticksperns, allocated, samples, hounds, i, j, start, end_,
                    cyclestart, cycleend, now, tpc, tk, created, joined, prims,
                    out, rc >>

\* lines 234-238: fopen failed, exit(EXIT_FAILURE)
FopenFail ==
    /\ mpc = "emit"
    /\ mpc' = "exit_fopen"
    /\ UNCHANGED << numthreads, use_threads, use_stdout, numsamples, interval,
                    ticksperns, allocated, samples, hounds, i, j, start, end_,
                    cyclestart, cycleend, now, tpc, tk, created, joined, prims,
                    rd, out, files, stdout_used, rc >>

\* lines 250-253: pthread_exit(NULL) or exit(EXIT_SUCCESS)
Finish ==
    /\ mpc = "finish"
    /\ mpc' = "exit_ok"
    /\ UNCHANGED << numthreads, use_threads, use_stdout, numsamples, interval,
                    ticksperns, allocated, samples, hounds, i, j, start, end_,
                    cyclestart, cycleend, now, tpc, tk, created, joined, prims,
                    rd, out, files, stdout_used, rc >>

\* the exit status of the process (0 while it runs)
ExitStatus ==
    IF mpc \in {"exit_usage", "exit_stdout", "exit_create", "exit_join",
                "exit_fopen", "abort_alloc", "abort_threadinit", "crash"}
    THEN 1 ELSE 0

(* --------------------------- specification ---------------------------- *)
Setup == Usage \/ Alloc \/ AllocFail \/ CheckStdout \/ Calibrate

Threaded ==
    \/ ThreadInit \/ ThreadInitFail \/ ThreadedStart \/ ThreadedCycleStart
    \/ Create \/ CreateFail \/ ThreadedRelease \/ Join \/ JoinFail
    \/ ThreadedCycleEnd \/ ThreadedEnd

Inline ==
    \/ InlineRelease \/ InlineStart \/ InlineCycleStart \/ InlineCall
    \/ InlineReturn \/ InlineCycleEnd \/ InlineEnd

Reporter == Report \/ EmitStdout \/ EmitFile \/ EmitFault \/ FopenFail \/ Finish

\* a step of main() in which no call fails
MainOk ==
    \/ ParseArgs \/ ParseArgsNumeric \/ Alloc \/ CheckStdout \/ Calibrate
    \/ ThreadInit \/ ThreadedStart \/ ThreadedCycleStart \/ Create
    \/ ThreadedRelease \/ Join \/ ThreadedCycleEnd \/ ThreadedEnd
    \/ Inline \/ Report \/ EmitStdout \/ EmitFile \/ Finish

Core(t) == CoreStart(t) \/ CoreSample(t) \/ CoreReturn(t)

Run == Setup \/ Threaded \/ Inline \/ Reporter \/ (\E t \in Threads : Core(t))

Next == ParseArgs \/ Run

Spec == Init /\ [][Next]_vars

NextNumeric == ParseArgsNumeric \/ Run

ArgSpec == Init /\ [][NextNumeric]_vars

\* main() and every measurement instance keep being scheduled
FairSpec == Spec /\ WF_vars(MainOk) /\ \A t \in Threads : WF_vars(Core(t))

(* ------------------------------ properties ---------------------------- *)
\* the threads main() asked for
Wanted == 0 .. (numthreads - 1)

\* no sample report exists: nothing on stdout, no .dat file, no line
NoReport == files = {} /\ ~stdout_used /\ \A t \in Threads : out[t] = << >>

\* C1 as stated: whenever the thread count is 1, no thread primitive is
\* invoked and no thread is created
C1_Original == numthreads = 1 => prims = {} /\ created = {}

\* C1, amended: when -t is not given (use_threads = 0), main invokes no thread
\* primitive and creates no thread, and the only measurement instance is
\* ftq_core(0), running while main is inside its call at line 204; with -t 1
\* the threaded path is taken
C1_InlineWithoutOption ==
    /\ use_threads = 0 =>
          /\ prims = {}
          /\ created = {}
          /\ \A t \in Threads \ {0} : tpc[t] = "none"
          /\ tpc[0] \in {"spin", "run"} => mpc = "i_core"
    /\ use_threads = 1 /\ hounds = 1 => "threadinit" \in prims /\ created # {}

C1_Witness ==
    /\ use_threads = 0
    /\ mpc = "exit_ok"
    /\ numsamples >= 1
    /\ tk[0] = numsamples
    /\ tpc[0] = "done"

\* C2 as stated: at the rejection of -s with more than one thread the buffer
\* is not allocated and no thread is created
C2_Original == mpc = "exit_stdout" => ~allocated /\ created = {}

\* C2, amended: -s with numthreads > 1 is rejected with a non-zero exit status
\* before threadinit and any thread creation, and never gets further; the
\* sample buffer has already been allocated when the run is rejected
C2_RejectedBeforeThreads ==
    /\ mpc = "exit_stdout" =>
          /\ ExitStatus # 0
          /\ allocated
          /\ created = {} /\ prims = {}
          /\ \A t \in Threads : tpc[t] = "none"
    /\ use_stdout = 1 /\ numthreads > 1 =>
          mpc \in {"alloc", "abort_alloc", "check", "exit_stdout"}

C2_Witness == mpc = "exit_stdout" /\ numthreads = 2 /\ allocated

\* C3 as stated: in both paths the two start values are read before hounds is
\* set, and setting hounds is the step of main that follows the second read
C3_Original ==
    [][/\ hounds = 0 /\ hounds' = 1 => start # -1 /\ cyclestart # -1
       /\ cyclestart = -1 /\ cyclestart' # -1 =>
             mpc' \in {"t_release", "i_release"}]_vars

\* C3, amended: in the threaded path start and cyclestart are read before any
\* thread is created and so before hounds is set, the creation loop running
\* between the reads and the release; in the inline path hounds is set first
\* and the two reads follow, right before ftq_core(0) is entered
C3_StartVersusRelease ==
    /\ use_threads = 1 /\ (hounds = 1 \/ created # {} \/ mpc = "t_create") =>
          start # -1 /\ cyclestart # -1
    /\ use_threads = 1 /\ mpc = "t_release" => created = Wanted
    /\ use_threads = 0 /\ (start # -1 \/ cyclestart # -1) => hounds = 1
    /\ use_threads = 0 /\ tpc[0] # "none" => start # -1 /\ cyclestart # -1

C3_Witness ==
    /\ use_threads = 0
    /\ mpc = "i_core"
    /\ hounds = 1
    /\ cyclestart # -1
    /\ tpc[0] = "run"

\* C4: hounds changes only from 0 to 1 (so once, and it is never reset); in
\* the threaded path it changes only when every thread has been created, and
\* no thread is past its spin-wait unless hounds is set and all are created
C4_ReleaseAfterAllCreated ==
    /\ [][hounds' # hounds =>
             /\ hounds = 0 /\ hounds' = 1
             /\ use_threads = 1 => created = Wanted]_vars
    /\ [](\A t \in Threads :
             use_threads = 1 /\ tpc[t] \in {"run", "done"} =>
                hounds = 1 /\ created = Wanted)

C4_Witness ==
    /\ use_threads = 1
    /\ numthreads = 2
    /\ tpc[0] = "spin"
    /\ tpc[1] = "run"
    /\ hounds = 1

\* the words of thread t's slice: [2*t*numsamples, 2*(t+1)*numsamples)
Slice(t) == (2 * t * numsamples) .. (2 * (t + 1) * numsamples - 1)

\* C5 as stated: the buffer holds numthreads*numsamples pairs, the slices of
\* distinct threads do not overlap, every index the reporter reads for thread
\* t (the base read included) is inside the buffer and inside slice t, and
\* numsamples lines are emitted per reported thread
C5_Original ==
    allocated =>
       /\ DOMAIN samples = 0 .. (2 * numthreads * numsamples - 1)
       /\ \A t \in Wanted, u \in Wanted : t # u => Slice(t) \cap Slice(u) = {}
       /\ \A t \in Wanted :
             /\ rd[t] \subseteq DOMAIN samples
             /\ rd[t] \subseteq Slice(t)
             /\ out[t] # << >> => Len(out[t]) = numsamples

\* main() has read the end values or the reporter has touched the buffer
MainPastJoin ==
    \/ cycleend # -1 \/ end_ # -1
    \/ \E t \in Threads : rd[t] # {} \/ out[t] # << >>
    \/ files # {} \/ stdout_used
    \/ mpc \in {"t_cycleend", "t_end", "report", "emit", "emit_stdout",
                "finish", "exit_ok"}

\* C6: in the threaded path main reads the end values and the reporter reads
\* the buffer only when pthread_join has returned for every thread, hence
\* when every measurement instance has finished writing
C6_ReadAfterAllJoined ==
    use_threads = 1 /\ MainPastJoin =>
       /\ joined = Wanted
       /\ \A t \in Wanted : tpc[t] = "done" /\ tk[t] = numsamples

C6_Witness ==
    /\ use_threads = 1
    /\ numthreads = 2
    /\ numsamples = 1
    /\ rd[1] # {}
    /\ Len(out[1]) = 1

\* C7 as stated: interval > 0 in every run that reaches the launch of the
\* measurement instances
C7_Original ==
    (created # {} \/ \E t \in Threads : tpc[t] # "none") => interval > 0

\* C8 as stated: the time column is the tick difference converted with
\* ticksperns (ticks per nanosecond)
C8_Original ==
    \A t \in Threads : \A k \in DOMAIN out[t] :
        out[t][k][1] =
           (samples[TimeIdx(t, k - 1)] - samples[BaseIdx(t)]) \div ticksperns

\* C8, amended: the time column is the tick difference multiplied by the
\* float nspercycle = (end - start) / (cycleend - cyclestart) measured over
\* this run and truncated; ticksperns does not enter it
C8_TimeColumnFromMeasuredRatio ==
    \A t \in Threads : \A k \in DOMAIN out[t] :
        out[t][k][1] =
           FloatTrunc(FloatMul(
              ToFloat(end_ - start, cycleend - cyclestart),
              IntToFloat(samples[TimeIdx(t, k - 1)] - samples[BaseIdx(t)])))

C8_Witness ==
    /\ mpc = "exit_ok"
    /\ Len(out[0]) = 2
    /\ out[0][2][1] > 0
    /\ out[0][2][1] # (samples[2] - samples[0]) \div ticksperns

\* C9: once pthread_create or pthread_join has returned non-zero the process
\* has exited with a non-zero status, there is no sample report, and after a
\* failed creation hounds is not set
C9_FailureAborts ==
    rc # 0 =>
       /\ mpc \in {"exit_create", "exit_join"}
       /\ ExitStatus # 0
       /\ ~ENABLED Next
       /\ NoReport
       /\ mpc = "exit_create" => hounds = 0

C9_Witness ==
    /\ mpc = "exit_create"
    /\ created = {0}
    /\ tpc[0] = "spin"

\* the reporting stage has been reached
Reported == mpc \in {"report", "emit", "emit_stdout", "finish", "exit_ok",
                      "exit_fopen", "crash"}

====
